---- MODULE Spec2Model ----
(***************************************************************************)
(* Model of msfs2020checksum (src/src/main.rs): the parallel hashing       *)
(* engine.  main() sizes a per-thread buffer with get_buffer_size, spawns  *)
(* thread_num workers that share one directory iterator behind a Mutex,    *)
(* joins them, concatenates and sorts their records and writes them out.   *)
(*                                                                         *)
(* Units.  Memory is counted in MiB (every quantity get_buffer_size        *)
(* compares is a whole number of MiB once the available memory is rounded  *)
(* down, and rounding down does not change any comparison against a whole  *)
(* number of MiB).  File contents, file sizes and buffer lengths are       *)
(* counted in blocks of Grain MiB, the smallest value the halving loop can *)
(* leave; one element of a content sequence stands for one block.          *)
(***************************************************************************)
EXTENDS Integers, Sequences, FiniteSets, TLC

\* ------------------------------------------------------------- bounds
MaxThreads == 2
MaxFiles == 2
MaxLen == 2
MaxMem == 70
MaxBufThreads == 16
MaxProbeLen == 3
MaxReuseLen == 3

\* ------------------------------------------------- program constants
\* const DEFAULT_BUFFERIZE: u64 = 256 * 1024 * 1024;  (in MiB)
DEFAULT_BUFFERIZE == 256
\* const MINIMAL_BUFFERIZE: u64 = 16 * 1024 * 1024;   (in MiB)
MINIMAL_BUFFERIZE == 16
\* vec![0xFF; buffersize]
FILL == 255

Grain == MINIMAL_BUFFERIZE \div 2

Min(a, b) == IF a <= b THEN a ELSE b

Workers == 1..MaxThreads

\* ------------------------------------------------------------ strings
\* A string is a sequence of character codes; String's Ord is lexicographic.
RECURSIVE StrLess(_, _)
StrLess(s, t) ==
  IF s = <<>> THEN t # <<>>
  ELSE IF t = <<>> THEN FALSE
  ELSE IF Head(s) # Head(t) THEN Head(s) < Head(t)
  ELSE StrLess(Tail(s), Tail(t))

\* The root directory given on the command line, and the path separator.
packages_dir == <<9>>
Sep == <<0>>

\* The i-th file name of the pool: "a", "aa", "b", "bb", ... (ascending in i).
PathName(i) == IF i % 2 = 1 THEN <<(i + 1) \div 2>> ELSE <<i \div 2, i \div 2>>

IsPrefix(p, s) == Len(p) <= Len(s) /\ SubSeq(s, 1, Len(p)) = p

\* Path::strip_prefix: the path below base, or an error when it is not below it.
strip_prefix(path, base) ==
  IF path = base THEN [ok |-> TRUE, rel |-> <<>>]
  ELSE IF IsPrefix(base \o Sep, path)
       THEN [ok |-> TRUE, rel |-> SubSeq(path, Len(base) + 2, Len(path))]
       ELSE [ok |-> FALSE, rel |-> <<>>]

\* Character codes that are not valid Unicode (an unpaired surrogate in a
\* file name), and the code of U+FFFD REPLACEMENT CHARACTER.
InvalidChars == {7, 8}
ReplacementChar == <<6>>

\* to_string_lossy: every invalid sequence becomes U+FFFD, the rest is kept.
to_string_lossy(s) ==
  [k \in 1..Len(s) |-> IF s[k] \in InvalidChars THEN ReplacementChar[1] ELSE s[k]]

\* ------------------------------------------------------------ records
\* (path_string, hash, filesize): tuples compare field by field.
TupleLess(a, b) ==
  \/ StrLess(a[1], b[1])
  \/ a[1] = b[1] /\ a[2] < b[2]
  \/ a[1] = b[1] /\ a[2] = b[2] /\ a[3] < b[3]

TupleLeq(a, b) == a = b \/ TupleLess(a, b)

RECURSIVE InsertSorted(_, _)
InsertSorted(x, s) ==
  IF s = <<>> THEN <<x>>
  ELSE IF TupleLeq(x, Head(s)) THEN <<x>> \o s
  ELSE <<Head(s)>> \o InsertSorted(x, Tail(s))

RECURSIVE SortedOf(_)
SortedOf(v) == IF v = <<>> THEN <<>> ELSE InsertSorted(Head(v), SortedOf(Tail(v)))

\* Variant: the vector is sorted and records equal to their neighbour are dropped.
RECURSIVE DropRepeated(_)
DropRepeated(v) ==
  IF Len(v) <= 1 THEN v
  ELSE IF v[1] = v[2] THEN DropRepeated(Tail(v))
  ELSE <<Head(v)>> \o DropRepeated(Tail(v))

sort_unstable_dedup(v) == DropRepeated(SortedOf(v))

\* Variant: the vector is left as it is.
sort_unstable_unsorted(v) == v

\* Vec::sort_unstable on a vector of tuples.
sort_unstable(v) == SortedOf(v)

\* ------------------------------------------------------------ hashing
\* xxh3 is an external library: it is modelled as a collision-free function
\* of the bytes it is given (a base-4 numeral with digits 1..3), and the
\* incremental hasher as the bytes fed to it so far.
Code(b) == IF b = FILL THEN 3 ELSE b + 1

RECURSIVE xxh3_128(_)
xxh3_128(bytes) ==
  IF bytes = <<>> THEN 0 ELSE Code(Head(bytes)) + 4 * xxh3_128(Tail(bytes))

Xxh3New == <<>>
Xxh3Update(hasher, bytes) == hasher \o bytes
Xxh3Digest128(hasher) == xxh3_128(hasher)

\* One read call that returns n bytes from offset pos: they land at the start
\* of the buffer, the rest of the buffer keeps what it held.
ReadInto(buf, content, pos, n) ==
  [k \in 1..Len(buf) |-> IF k <= n THEN content[pos + k] ELSE buf[k]]

RECURSIVE SumSeq(_)
SumSeq(s) == IF s = <<>> THEN 0 ELSE Head(s) + SumSeq(Tail(s))

\* What the read calls on a file may return until end of file: every sequence
\* of positive counts, none above the buffer length, that adds up to the file.
Chunkings(content, buflen) ==
  { c \in UNION { [1..k -> 1..buflen] : k \in 0..Len(content) } :
      SumSeq(c) = Len(content) }

\* Variant: the hasher is fed the whole buffer, not the bytes just read.
RECURSIVE BigLoop_whole_buffer(_, _, _, _, _)
BigLoop_whole_buffer(content, buf, pos, hasher, reads) ==
  LET read_size == IF reads = <<>> THEN 0 ELSE Head(reads) IN
  IF read_size # 0
  THEN LET nb == ReadInto(buf, content, pos, read_size) IN
       BigLoop_whole_buffer(content, nb, pos + read_size,
                            Xxh3Update(hasher, nb), Tail(reads))
  ELSE [hash |-> Xxh3Digest128(hasher), buffer |-> buf]

RECURSIVE BigLoop(_, _, _, _, _)
BigLoop(content, buf, pos, hasher, reads) ==
  LET read_size == IF reads = <<>> THEN 0 ELSE Head(reads) IN
  IF read_size # 0
  THEN LET nb == ReadInto(buf, content, pos, read_size) IN
       BigLoop(content, nb, pos + read_size,
               Xxh3Update(hasher, SubSeq(nb, 1, read_size)), Tail(reads))
  ELSE [hash |-> Xxh3Digest128(hasher), buffer |-> buf]

\* bigfile_xxhash3_128: read into the buffer and feed the hasher until a read
\* returns 0.  reads: what the successive read calls return.
bigfile_xxhash3_128(content, buf, reads) == BigLoop(content, buf, 0, Xxh3New, reads)

\* Variant: the whole buffer is hashed, not the bytes the read returned.
smallfile_xxhash3_128_whole_buffer(content, buf, reads) ==
  LET read_size == IF reads = <<>> THEN 0 ELSE Head(reads)
      nb == ReadInto(buf, content, 0, read_size)
  IN [hash |-> xxh3_128(nb), buffer |-> nb]

\* smallfile_xxhash3_128: one read call, hash of the bytes it returned.
smallfile_xxhash3_128(content, buf, reads) ==
  LET read_size == IF reads = <<>> THEN 0 ELSE Head(reads)
      nb == ReadInto(buf, content, 0, read_size)
  IN [hash |-> xxh3_128(SubSeq(nb, 1, read_size)), buffer |-> nb]

\* Variant: a file exactly as long as the buffer is streamed too.
is_bigfile_from_equal(filesize, buflen) == filesize >= buflen

\* line 253: filesize > buffer.len() as u64
is_bigfile(filesize, buflen) == filesize > buflen

\* get_xxhash3_128_and_size on a directory entry e: "err" for Err(_) (metadata
\* failed), "none" for Ok(None) (a directory), "panic" when File::open or
\* read fails under unwrap(), "ok" for Ok(Some((hash, filesize))).  mode
\* names the routine that was called.
get_xxhash3_128_and_size(e, buf, reads) ==
  IF e.fault = "meta"
  THEN [tag |-> "err", hash |-> 0, filesize |-> 0, buffer |-> buf, mode |-> "none"]
  ELSE IF e.kind = "dir"
  THEN [tag |-> "none", hash |-> 0, filesize |-> 0, buffer |-> buf, mode |-> "none"]
  ELSE IF e.fault \in {"open", "read"}
  THEN [tag |-> "panic", hash |-> 0, filesize |-> 0, buffer |-> buf, mode |-> "none"]
  ELSE LET filesize == Len(e.content)
           big == is_bigfile(filesize, Len(buf))
           h == IF big
                THEN bigfile_xxhash3_128(e.content, buf, reads)
                ELSE smallfile_xxhash3_128(e.content, buf, reads)
       IN [tag |-> "ok", hash |-> h.hash, filesize |-> filesize, buffer |-> h.buffer,
           mode |-> IF big THEN "big" ELSE "small"]

\* ---------------------------------------------------- get_buffer_size
RECURSIVE Halve(_, _)
Halve(bufferize, available_memory_per_thread) ==
  IF bufferize > available_memory_per_thread /\ bufferize >= MINIMAL_BUFFERIZE
  THEN Halve(bufferize \div 2, available_memory_per_thread)
  ELSE bufferize

\* Variant: the result of the loop is returned without the check at line 296.
get_buffer_size_unchecked(thread_number, available_memory_all) ==
  [panicked |-> FALSE,
   size |-> Halve(DEFAULT_BUFFERIZE, available_memory_all \div thread_number)]

get_buffer_size(thread_number, available_memory_all) ==
  LET available_memory_per_thread == available_memory_all \div thread_number
      bufferize == Halve(DEFAULT_BUFFERIZE, available_memory_per_thread)
  IN IF bufferize > available_memory_per_thread
     THEN [panicked |-> TRUE, size |-> 0]
     ELSE [panicked |-> FALSE, size |-> bufferize]

\* ------------------------------------------------------- file system
Content(i, n) == [k \in 1..n |-> (k + i) % 2]

AbsPath(i) == packages_dir \o Sep \o PathName(i)

\* What an entry below the root can be: a file whose metadata / open / read
\* fails, or a readable file of MaxLen blocks.
Shapes ==
  {[kind |-> "file", fault |-> f, len |-> MaxLen] : f \in {"meta", "open", "read"}}
  \cup {[kind |-> "file", fault |-> "none", len |-> n] : n \in {MaxLen}}

Entry(i, sh) ==
  [path |-> AbsPath(i), kind |-> sh.kind, fault |-> sh.fault,
   content |-> Content(i, sh.len)]

RootDir == [path |-> packages_dir, kind |-> "dir", fault |-> "none", content |-> <<>>]

RootFile(sh) ==
  [path |-> packages_dir, kind |-> "file", fault |-> sh.fault,
   content |-> Content(0, sh.len)]

Injective(f) == \A i, j \in DOMAIN f : f[i] = f[j] => i = j

\* WalkDir yields the root first, then the entries below it, each once, in an
\* order the file system chooses.
InjNames(n) == { f \in [1..n -> 1..MaxFiles] : Injective(f) }

DirWalks ==
  UNION { { <<RootDir>> \o [k \in 1..n |-> Entry(names[k], shapes[k])] :
              names \in InjNames(n), shapes \in [1..n -> Shapes] } :
          n \in 0..MaxFiles }

\* Two files whose names differ only in an invalid character, so that both
\* have the same path string; c1, c2 choose their contents.
LossyEntry(ch, c) ==
  [path |-> packages_dir \o Sep \o <<ch>>, kind |-> "file", fault |-> "none",
   content |-> Content(c, MaxLen)]

LossyWalks ==
  { <<RootDir, LossyEntry(p[1], 0), LossyEntry(p[2], c)>> :
      p \in { q \in InvalidChars \X InvalidChars : q[1] < q[2] }, c \in {0, 1} }

\* The root given as a single file: nothing is traversed.
FileWalks == { <<RootFile(sh)>> : sh \in Shapes }

\* Available physical memory (MiB) of the runs: too little for any thread
\* count, and enough for one, two or four blocks per thread, depending on
\* the thread count.
AvailChoices == {Grain \div 2, 2 * Grain, 4 * Grain}

\* -------------------------------------------------------------- state
VARIABLES
  walk,          \* the entries the traversal yields, in order (walk[1]: the root)
  thread_num,    \* args.threads after line 82
  availMem,      \* available_memory(), MiB
  print_screen,  \* args.output.is_none()
  mpc,           \* main thread: position in main()
  buffersize,    \* MiB; 0 before get_buffer_size returned
  spawned,       \* threads spawned so far
  joined,        \* handles joined so far
  results,       \* main's results vector
  outfile,       \* lines written to the output file
  stdout,        \* records printed with println!
  stderr,        \* paths reported with "Fail to read file"
  cursor,        \* s_package_files: index of the next entry of walk
  mutex,         \* the threads holding the Mutex guard
  pc,            \* worker: position in the closure
  package_file,  \* worker: index in walk of the entry it claimed (0: none)
  buffer,        \* worker: its buffer
  result,        \* worker: its result vector
  handed,        \* per entry of walk: how often next() returned it to a worker
  probe          \* harness state of the hashing routines run side by side

vars == <<walk, thread_num, availMem, print_screen, mpc, buffersize, spawned, joined,
          results, outfile, stdout, stderr, cursor, mutex, pc, package_file, buffer,
          result, handed, probe>>

env == <<walk, thread_num, availMem, print_screen>>
workerVars == <<pc, package_file, buffer, result, handed>>
mainVars == <<mpc, buffersize, spawned, joined, results, outfile>>

RootIsDir == walk[1].kind = "dir"

ProbeOff == [phase |-> "off"]

InitRest ==
  /\ mpc = "start"
  /\ buffersize = 0
  /\ spawned = 0
  /\ joined = 0
  /\ results = <<>>
  /\ outfile = <<>>
  /\ stdout = <<>>
  /\ stderr = <<>>
  /\ cursor = 1
  /\ mutex = {}
  /\ pc = [w \in Workers |-> "idle"]
  /\ package_file = [w \in Workers |-> 0]
  /\ buffer = [w \in Workers |-> <<>>]
  /\ result = [w \in Workers |-> <<>>]
  /\ handed = [k \in 1..Len(walk) |-> 0]

Init ==
  /\ walk \in DirWalks \cup LossyWalks \cup FileWalks
  /\ thread_num \in 1..MaxThreads
  /\ availMem \in AvailChoices
  /\ print_screen \in BOOLEAN
  /\ probe = ProbeOff
  /\ InitRest

\* --------------------------------------------------------- main thread
\* line 91: packages_dir.metadata().unwrap().is_dir()
CheckRoot ==
  /\ mpc = "start"
  /\ mpc' = IF walk[1].fault = "meta" THEN "panic_root" ELSE "getbuf"
  /\ UNCHANGED <<env, buffersize, spawned, joined, results, outfile, stdout, stderr,
                 cursor, mutex, workerVars, probe>>

\* Variant: the threads are started before the buffer is sized, so a failed
\* sizing is noticed with the workers already running.
GetBuffer_after_spawn ==
  /\ mpc = "getbuf"
  /\ LET r == get_buffer_size(IF RootIsDir THEN thread_num ELSE 1, availMem) IN
       IF r.panicked
       THEN /\ mpc' = "panic_mem" /\ buffersize' = buffersize
            /\ spawned' = IF RootIsDir THEN thread_num ELSE spawned
            /\ pc' = [w \in Workers |->
                        IF RootIsDir /\ w <= thread_num THEN "lock" ELSE pc[w]]
       ELSE /\ buffersize' = r.size /\ mpc' = IF RootIsDir THEN "spawn" ELSE "single"
            /\ UNCHANGED <<spawned, pc>>
  /\ UNCHANGED <<env, joined, results, outfile, stdout, stderr,
                 cursor, mutex, package_file, buffer, result, handed, probe>>

\* lines 98 and 160: get_buffer_size(thread_num) / get_buffer_size(1)
GetBuffer ==
  /\ mpc = "getbuf"
  /\ LET r == get_buffer_size(IF RootIsDir THEN thread_num ELSE 1, availMem) IN
       IF r.panicked
       THEN mpc' = "panic_mem" /\ buffersize' = buffersize
       ELSE buffersize' = r.size /\ mpc' = IF RootIsDir THEN "spawn" ELSE "single"
  /\ UNCHANGED <<env, spawned, joined, results, outfile, stdout, stderr,
                 cursor, mutex, workerVars, probe>>

NewBuffer(size) == [k \in 1..(size \div Grain) |-> FILL]

\* lines 106-148: the spawning loop.  Every thread starts with an empty result
\* vector and a buffer filled with 0xFF; a thread spawned early runs while the
\* later ones are spawned, which is the same as the later ones not having
\* taken a step yet.
Spawn ==
  /\ mpc = "spawn"
  /\ spawned' = thread_num
  /\ pc' = [w \in Workers |-> IF w <= thread_num THEN "lock" ELSE pc[w]]
  /\ buffer' = [w \in Workers |-> IF w <= thread_num THEN NewBuffer(buffersize) ELSE buffer[w]]
  /\ mpc' = "join"
  /\ UNCHANGED <<env, buffersize, joined, results, outfile, stdout, stderr,
                 cursor, mutex, package_file, result, handed, probe>>

\* Variant: join returns without waiting for the thread.
join_ready_always(state) == TRUE

\* JoinHandle::join returns once the thread has finished.
join_ready(state) == state \in {"done", "panicked"}

\* lines 149-152: join the next handle; unwrap() panics if the thread panicked.
Join ==
  /\ mpc = "join"
  /\ joined < thread_num
  /\ join_ready(pc[joined + 1])
  /\ IF pc[joined + 1] = "panicked"
     THEN mpc' = "panic_join" /\ UNCHANGED <<joined, results>>
     ELSE /\ results' = results \o result[joined + 1]
          /\ joined' = joined + 1
          /\ mpc' = IF joined + 1 = thread_num THEN "sort" ELSE "join"
  /\ UNCHANGED <<env, buffersize, spawned, outfile, stdout, stderr,
                 cursor, mutex, workerVars, probe>>

\* line 154
FinalSort ==
  /\ mpc = "sort"
  /\ results' = sort_unstable(results)
  /\ mpc' = "write"
  /\ UNCHANGED <<env, buffersize, spawned, joined, outfile, stdout, stderr,
                 cursor, mutex, workerVars, probe>>

\* Variant: the record is printed whether or not an output file was given.
println_always(out, rec) == Append(out, rec)

\* lines 129-131, 166-168: if print_screen { println!(...) }
println(out, rec) == IF print_screen THEN Append(out, rec) ELSE out

\* lines 160-182: the root is a file; it is hashed on the main thread.
SingleOk ==
  /\ mpc = "single"
  /\ \E reads \in Chunkings(walk[1].content, Len(NewBuffer(buffersize))) :
       LET o == get_xxhash3_128_and_size(walk[1], NewBuffer(buffersize), reads)
           rec == <<to_string_lossy(packages_dir), o.hash, o.filesize>>
       IN /\ o.tag = "ok"
          /\ stdout' = println(stdout, rec)
          /\ results' = Append(results, rec)
  /\ mpc' = "write"
  /\ UNCHANGED <<env, buffersize, spawned, joined, outfile, stderr,
                 cursor, mutex, workerVars, probe>>

SinglePanic ==
  /\ mpc = "single"
  /\ get_xxhash3_128_and_size(walk[1], NewBuffer(buffersize), <<>>).tag = "panic"
  /\ mpc' = "panic_io"
  /\ UNCHANGED <<env, buffersize, spawned, joined, results, outfile, stdout, stderr,
                 cursor, mutex, workerVars, probe>>

\* lines 183-192: the records go to the output file when one was given.
WriteOutput ==
  /\ mpc = "write"
  /\ outfile' = IF print_screen THEN outfile ELSE results
  /\ mpc' = "done"
  /\ UNCHANGED <<env, buffersize, spawned, joined, results, stdout, stderr,
                 cursor, mutex, workerVars, probe>>

\* ------------------------------------------------------------- workers
\* Variant: lock() returns although another thread holds the guard.
lock_available_always(m) == TRUE

\* Mutex::lock returns when no other thread holds the guard.
lock_available(m) == m = {}

\* line 115
Lock(w) ==
  /\ pc[w] = "lock"
  /\ lock_available(mutex)
  /\ mutex' = mutex \cup {w}
  /\ pc' = [pc EXCEPT ![w] = "next"]
  /\ UNCHANGED <<env, mainVars, stdout, stderr, cursor, package_file, buffer,
                 result, handed, probe>>

\* Variant: the guard outlives the block.
guard_drop_never(m, w) == m

\* The guard goes out of scope at the end of the block (line 120) or at break.
guard_drop(m, w) == m \ {w}

\* Variant: next() returns the entry without moving past it.
iter_advance_stuck(c) == c

\* Iterator::next moves the cursor past the entry it returns.
iter_advance(c) == c + 1

\* lines 116-120: file_iter.next() returns Some(entry): the worker takes it and
\* the guard is dropped.
NextEntry(w) ==
  /\ pc[w] = "next"
  /\ cursor <= Len(walk)
  /\ package_file' = [package_file EXCEPT ![w] = cursor]
  /\ handed' = [handed EXCEPT ![cursor] = @ + 1]
  /\ cursor' = iter_advance(cursor)
  /\ pc' = [pc EXCEPT ![w] = "hash"]
  /\ mutex' = guard_drop(mutex, w)
  /\ UNCHANGED <<env, mainVars, stdout, stderr, buffer, result, probe>>

\* lines 118, 144-145: file_iter.next() returns None: break (the guard is
\* dropped), result.sort_unstable(), and the thread returns its result.
Exhausted(w) ==
  /\ pc[w] = "next"
  /\ cursor > Len(walk)
  /\ mutex' = guard_drop(mutex, w)
  /\ result' = [result EXCEPT ![w] = sort_unstable(@)]
  /\ pc' = [pc EXCEPT ![w] = "done"]
  /\ UNCHANGED <<env, mainVars, stdout, stderr, cursor, package_file, buffer,
                 handed, probe>>

\* The path string of a record: relative to the root, else the path itself.
PathString(path) ==
  LET r == strip_prefix(path, packages_dir)
  IN to_string_lossy(IF r.ok THEN r.rel ELSE path)

\* Observation of the latest call at line 121, kept only in the runs that
\* trace it: the entry, what its read calls returned, the routine used and
\* the buffer the call was given.
Traced(k, before, reads, o) ==
  IF probe.phase = "trace"
  THEN [phase |-> "trace", file |-> k, reads |-> reads, mode |-> o.mode, before |-> before]
  ELSE probe

\* lines 121-133: Ok(Some((hash, filesize)))
HashOk(w) ==
  /\ pc[w] = "hash"
  /\ LET e == walk[package_file[w]] IN
     \E reads \in Chunkings(e.content, Len(buffer[w])) :
       LET o == get_xxhash3_128_and_size(e, buffer[w], reads)
           rec == <<PathString(e.path), o.hash, o.filesize>>
       IN /\ o.tag = "ok"
          /\ stdout' = println(stdout, rec)
          /\ result' = [result EXCEPT ![w] = Append(@, rec)]
          /\ buffer' = [buffer EXCEPT ![w] = o.buffer]
          /\ probe' = Traced(package_file[w], buffer[w], reads, o)
  /\ package_file' = [package_file EXCEPT ![w] = 0]
  /\ pc' = [pc EXCEPT ![w] = "lock"]
  /\ UNCHANGED <<env, mainVars, stderr, cursor, mutex, handed>>

\* line 134: Ok(_) => {}
HashSkip(w) ==
  /\ pc[w] = "hash"
  /\ get_xxhash3_128_and_size(walk[package_file[w]], buffer[w], <<>>).tag = "none"
  /\ package_file' = [package_file EXCEPT ![w] = 0]
  /\ pc' = [pc EXCEPT ![w] = "lock"]
  /\ UNCHANGED <<env, mainVars, stdout, stderr, cursor, mutex,
                 buffer, result, handed, probe>>

\* Variant: a failed metadata call ends the thread, like a failed open.
HashErr_fatal(w) ==
  /\ pc[w] = "hash"
  /\ get_xxhash3_128_and_size(walk[package_file[w]], buffer[w], <<>>).tag = "err"
  /\ package_file' = [package_file EXCEPT ![w] = 0]
  /\ pc' = [pc EXCEPT ![w] = "panicked"]
  /\ UNCHANGED <<env, mainVars, stdout, stderr, cursor, mutex,
                 buffer, result, handed, probe>>

\* lines 135-141: Err(err) => eprintln!("Fail to read file ...")
HashErr(w) ==
  /\ pc[w] = "hash"
  /\ get_xxhash3_128_and_size(walk[package_file[w]], buffer[w], <<>>).tag = "err"
  /\ stderr' = Append(stderr, walk[package_file[w]].path)
  /\ package_file' = [package_file EXCEPT ![w] = 0]
  /\ pc' = [pc EXCEPT ![w] = "lock"]
  /\ UNCHANGED <<env, mainVars, stdout, cursor, mutex,
                 buffer, result, handed, probe>>

\* lines 262, 265, 276, 277: unwrap() on a failed open or read ends the thread.
HashPanic(w) ==
  /\ pc[w] = "hash"
  /\ get_xxhash3_128_and_size(walk[package_file[w]], buffer[w], <<>>).tag = "panic"
  /\ package_file' = [package_file EXCEPT ![w] = 0]
  /\ pc' = [pc EXCEPT ![w] = "panicked"]
  /\ UNCHANGED <<env, mainVars, stdout, stderr, cursor, mutex,
                 buffer, result, handed, probe>>

Next ==
  \/ CheckRoot
  \/ GetBuffer
  \/ Spawn
  \/ Join
  \/ FinalSort
  \/ SingleOk
  \/ SinglePanic
  \/ WriteOutput
  \/ \E w \in Workers : Lock(w)
  \/ \E w \in Workers : NextEntry(w)
  \/ \E w \in Workers : Exhausted(w)
  \/ \E w \in Workers : HashOk(w)
  \/ \E w \in Workers : HashSkip(w)
  \/ \E w \in Workers : HashErr(w)
  \/ \E w \in Workers : HashPanic(w)

Spec == Init /\ [][Next]_vars

\* ------------------------------------------------ runs under fairness
\* The directory runs whose files can all be opened and read (a failing
\* metadata call is kept), written to an output file.
InitLive ==
  /\ walk \in { wk \in DirWalks \cup LossyWalks :
                  \A k \in 1..Len(wk) : wk[k].fault \notin {"open", "read"} }
  /\ thread_num \in 1..MaxThreads
  /\ availMem \in AvailChoices
  /\ print_screen = FALSE
  /\ probe = ProbeOff
  /\ InitRest

NextLive ==
  \/ CheckRoot
  \/ GetBuffer
  \/ Spawn
  \/ Join
  \/ FinalSort
  \/ WriteOutput
  \/ \E w \in Workers : Lock(w)
  \/ \E w \in Workers : NextEntry(w)
  \/ \E w \in Workers : Exhausted(w)
  \/ \E w \in Workers : HashOk(w)
  \/ \E w \in Workers : HashSkip(w)
  \/ \E w \in Workers : HashErr(w)

\* The scheduler guarantees that a step is eventually taken while some thread
\* can take one (a runnable thread is not held back forever); the Mutex is
\* not assumed to be fair between the workers.
SpecLive == InitLive /\ [][NextLive]_vars /\ WF_vars(NextLive)

\* ------------------------------------------- get_buffer_size on its own
\* Available memory of the sizing runs: every amount up to MaxMem MiB, and
\* the multiples of 16 and 64 MiB up to 64 * MaxMem.
MemSamples ==
  { m * s : m \in 0..MaxMem, s \in {1, MINIMAL_BUFFERIZE, DEFAULT_BUFFERIZE \div 4} }

InitBuf ==
  /\ walk = <<RootDir>>
  /\ thread_num \in 1..MaxBufThreads
  /\ availMem \in MemSamples
  /\ print_screen = FALSE
  /\ probe = ProbeOff
  /\ InitRest

NextBuf == CheckRoot \/ GetBuffer

SpecBuf == InitBuf /\ [][NextBuf]_vars

\* --------------------------------- the two hashing routines side by side
ProbeContents == UNION { [1..n -> {0, 1}] : n \in 0..MaxProbeLen }

ProbeBuffers(content) ==
  UNION { [1..n -> {b}] : n \in (IF content = <<>> THEN 1 ELSE Len(content))..(MaxProbeLen + 1),
                          b \in {FILL, 0, 1} }

InitHash ==
  /\ walk = <<RootDir>>
  /\ thread_num = 1
  /\ availMem = 0
  /\ print_screen = FALSE
  /\ probe \in { [phase |-> "ready", content |-> c, buffer |-> b, big |-> 0, small |-> 0] :
                   c \in ProbeContents, b \in UNION { ProbeBuffers(d) : d \in ProbeContents } }
  /\ Len(probe.buffer) >= Len(probe.content)
  /\ InitRest

\* bigfile_xxhash3_128 and smallfile_xxhash3_128 applied to the same file with
\* the same buffer; each routine's read calls return what the system chooses.
HashBoth ==
  /\ probe.phase = "ready"
  /\ \E rb \in Chunkings(probe.content, Len(probe.buffer)),
        rs \in Chunkings(probe.content, Len(probe.buffer)) :
       probe' = [probe EXCEPT
                   !.phase = "done",
                   !.big = bigfile_xxhash3_128(probe.content, probe.buffer, rb).hash,
                   !.small = smallfile_xxhash3_128(probe.content, probe.buffer, rs).hash]
  /\ UNCHANGED <<env, mainVars, stdout, stderr, cursor, mutex, workerVars>>

SpecHash == InitHash /\ [][HashBoth]_vars

\* ------------------------- one worker reusing its buffer from file to file
\* A directory of readable files of 0..MaxReuseLen blocks hashed by a single
\* worker, whose buffer (1, 2 or 4 blocks) keeps from each file what the
\* reads left in it; the latest call of the hashing routine is traced.
ReuseWalks ==
  UNION { { <<RootDir>> \o [k \in 1..n |->
                               [path |-> AbsPath(k), kind |-> "file", fault |-> "none",
                                content |-> Content(k, lens[k])]] :
              lens \in [1..n -> 0..MaxReuseLen] } :
          n \in 0..MaxFiles }

InitReuse ==
  /\ walk \in ReuseWalks
  /\ thread_num = 1
  /\ availMem \in {Grain, 2 * Grain, 4 * Grain}
  /\ print_screen = FALSE
  /\ probe = [phase |-> "trace", file |-> 0, reads |-> <<>>, mode |-> "none",
              before |-> <<>>]
  /\ InitRest

NextReuse ==
  \/ CheckRoot
  \/ GetBuffer
  \/ Spawn
  \/ Join
  \/ FinalSort
  \/ WriteOutput
  \/ \E w \in Workers : Lock(w)
  \/ \E w \in Workers : NextEntry(w)
  \/ \E w \in Workers : Exhausted(w)
  \/ \E w \in Workers : HashOk(w)
  \/ \E w \in Workers : HashSkip(w)

SpecReuse == InitReuse /\ [][NextReuse]_vars

\* ============================================================ properties
Spawned == 1..spawned

\* Every worker has been spawned and has ended (returned or panicked).
AllTerminated ==
  /\ spawned = thread_num
  /\ \A w \in Spawned : pc[w] \in {"done", "panicked"}

\* The run is past line 154: the combined results have been sorted.
Aggregated == RootIsDir /\ mpc \in {"write", "done"}

Readable(e) == e.kind = "file" /\ e.fault = "none"

\* The record of a readable file, as a function of the file alone: its path
\* below the root, the hash of its whole content, its size.
RecordOf(e) == <<PathString(e.path), xxh3_128(e.content), Len(e.content)>>

RECURSIVE RecordsOf(_)
RecordsOf(entries) ==
  IF entries = <<>> THEN <<>>
  ELSE (IF Readable(Head(entries)) THEN <<RecordOf(Head(entries))>> ELSE <<>>)
       \o RecordsOf(Tail(entries))

\* s <= t in the lexicographic order of strings, said without recursion.
StrLeq(s, t) ==
  \/ Len(s) <= Len(t) /\ \A i \in 1..Len(s) : s[i] = t[i]
  \/ \E i \in 1..Min(Len(s), Len(t)) :
       /\ s[i] < t[i]
       /\ \A j \in 1..(i - 1) : s[j] = t[j]

\* (path, hash, size) <= (path, hash, size): by path, then hash, then size.
RecordLeq(a, b) ==
  \/ a[1] # b[1] /\ StrLeq(a[1], b[1])
  \/ a[1] = b[1] /\ a[2] < b[2]
  \/ a[1] = b[1] /\ a[2] = b[2] /\ a[3] <= b[3]

Ascending(v) == \A i \in 1..(Len(v) - 1) : RecordLeq(v[i], v[i + 1])

\* C1: for a fixed set of files the final result list is the same sequence for
\* every thread count and every interleaving: once the results are aggregated
\* they are the one list the files determine, the records of the readable
\* files (path, hash of the content, size) in ascending order.
C1_SameResultForSameFiles ==
  Aggregated =>
    /\ Ascending(results)
    /\ Len(results) = Len(RecordsOf(walk))
    /\ \A i \in 1..Len(results) :
         \E j \in 1..Len(RecordsOf(walk)) : results[i] = RecordsOf(walk)[j]

\* C2: every path the shared iterator yields is claimed exactly once: in every
\* state no entry has been handed out twice, an entry has been handed out
\* exactly when the cursor has passed it, no two workers hold the same entry,
\* and once a worker has seen the iterator exhausted every entry of the
\* traversal has been handed out.
C2_ClaimedExactlyOnce ==
  /\ \A k \in 1..Len(walk) : handed[k] = (IF k < cursor THEN 1 ELSE 0)
  /\ \A v, w \in Workers :
       (v # w /\ package_file[v] # 0) => package_file[v] # package_file[w]
  /\ \A w \in Workers : package_file[w] # 0 => handed[package_file[w]] = 1
  /\ (AllTerminated /\ \E w \in Spawned : pc[w] = "done") =>
       \A k \in 1..Len(walk) : handed[k] = 1

\* Two workers have ended, each after claiming entries, with all entries claimed.
C2_Witness ==
  /\ thread_num = 2
  /\ AllTerminated
  /\ Len(walk) = 3
  /\ \A k \in 1..Len(walk) : handed[k] = 1
  /\ \A w \in Spawned : result[w] # <<>>

Unreadable(e) == e.kind = "file" /\ e.fault # "none"

NumUnreadable == Cardinality({ k \in 1..Len(walk) : Unreadable(walk[k]) })
NumReadable == Cardinality({ k \in 1..Len(walk) : Readable(walk[k]) })

\* C3: with exactly one unreadable file (metadata, open or read fails) among
\* readable ones the run completes: no worker stops, the main thread does not
\* abort, and at the end there is exactly one error report and one record per
\* readable file.
C3_OneUnreadableFileTolerated ==
  (RootIsDir /\ NumUnreadable = 1 /\ NumReadable >= 1) =>
    /\ \A w \in Workers : pc[w] # "panicked"
    /\ mpc # "panic_join"
    /\ mpc = "done" => (Len(stderr) = 1 /\ Len(results) = NumReadable)

RECURSIVE TotalLen(_, _)
TotalLen(f, n) == IF n = 0 THEN 0 ELSE Len(f[n]) + TotalLen(f, n - 1)

C5_FinalListSorted == Aggregated => Ascending(results)

\* The traversal yielded two readable files in descending order of path, two
\* workers hashed them, and both records are in the final list.
C5_Witness ==
  /\ Aggregated /\ thread_num = 2
  /\ Len(walk) = 3 /\ Len(results) = 2
  /\ StrLess(walk[3].path, walk[2].path)
  /\ \A w \in Spawned : result[w] # <<>>

\* The memory call has returned a size (0 stands for "not returned").
BufThreads == IF RootIsDir THEN thread_num ELSE 1
BufReturned == buffersize # 0
BufCalled == mpc \notin {"start", "getbuf", "panic_root"}

\* C6: get_buffer_size returns only 256, 128, 64, 32 or 16 MiB, and it panics
\* whenever available memory per thread is below 16 MiB.
C6_NeverBelowFloor ==
  /\ BufReturned =>
       buffersize \in {DEFAULT_BUFFERIZE, DEFAULT_BUFFERIZE \div 2, DEFAULT_BUFFERIZE \div 4,
                       DEFAULT_BUFFERIZE \div 8, MINIMAL_BUFFERIZE}
  /\ (BufCalled /\ availMem \div BufThreads < MINIMAL_BUFFERIZE) => mpc = "panic_mem"

\* C7: whenever get_buffer_size returns b, thread_count * b <= available memory.
C7_BuffersFitMemory == BufReturned => BufThreads * buffersize <= availMem

\* Three threads got a halved buffer.
C7_Witness ==
  /\ BufReturned /\ thread_num = 3
  /\ buffersize = DEFAULT_BUFFERIZE \div 4
  /\ availMem < 3 * (DEFAULT_BUFFERIZE \div 2)

\* C8: for a content that fits the buffer the streaming routine and the
\* single-read routine return the same hash, whatever the read calls return.
C8_StreamingEqualsSingleRead == probe.phase = "done" => probe.big = probe.small

EntriesWithPath(str) == { k \in 1..Len(walk) : PathString(walk[k].path) = str }

WholeFileRecord(r) ==
  \E k \in (IF RootIsDir THEN EntriesWithPath(r[1]) ELSE {1}) :
    /\ r[2] = xxh3_128(walk[k].content)
    /\ r[3] = Len(walk[k].content)

\* C9: every record produced carries the hash of the file's whole content, of
\* exactly the size bytes it reports, in streaming and in single-read mode.
C9_HashOfWholeContent ==
  /\ \A w \in Workers : \A i \in 1..Len(result[w]) : WholeFileRecord(result[w][i])
  /\ \A i \in 1..Len(results) : WholeFileRecord(results[i])

\* C10: at most one worker holds the cursor lock, and a worker holds it only
\* between acquiring it and the return of next(): never while it is hashing a
\* file, printing, reporting an error, or after it has ended.
C10_LockOnlyWhileAdvancing ==
  /\ Cardinality(mutex) <= 1
  /\ \A w \in Workers : w \in mutex => pc[w] = "next"

\* One worker holds the lock while another is hashing its file.
C10_Witness ==
  \E v, w \in Workers : v # w /\ v \in mutex /\ pc[w] = "hash"

\* The root is a regular file whose metadata, open and reads succeed.
RootIsReadableFile == ~RootIsDir /\ Readable(walk[1])

\* C11: when the root is a readable regular file, no worker is spawned and
\* nothing is claimed from a traversal, and once the file has been processed
\* the result list is exactly one record: the root path as given, the hash of
\* the file's content and its size.
C11_SingleFileRecord ==
  RootIsReadableFile =>
    /\ spawned = 0
    /\ cursor = 1
    /\ \A w \in Workers : pc[w] = "idle" /\ result[w] = <<>>
    /\ mpc \in {"write", "done"} =>
         results = << <<walk[1].path, xxh3_128(walk[1].content), Len(walk[1].content)>> >>

\* How often record r occurs in vector v, and in the vectors returned by the
\* first n workers.
Occurrences(r, v) == Cardinality({ i \in 1..Len(v) : v[i] = r })

RECURSIVE ReturnedOccurrences(_, _)
ReturnedOccurrences(r, n) ==
  IF n = 0 THEN 0 ELSE Occurrences(r, result[n]) + ReturnedOccurrences(r, n - 1)

RECURSIVE Concatenation(_, _)
Concatenation(f, n) == IF n = 0 THEN <<>> ELSE Concatenation(f, n - 1) \o f[n]

\* The entries that were claimed and whose hashing succeeds.
HashedTasks == { k \in 1..Len(walk) : handed[k] = 1 /\ Readable(walk[k]) }

\* C12: aggregation neither loses nor removes records.  While main joins, its
\* vector is the concatenation of the vectors of the workers joined so far;
\* after the final sort it is a permutation of the concatenation of all
\* workers' vectors (every record occurs as often in it as in the workers'
\* vectors together, so equal paths and equal records are all kept), and it
\* has one record per claimed task that was hashed successfully.
C12_AggregationKeepsAllRecords ==
  /\ (RootIsDir /\ mpc = "join") => results = Concatenation(result, joined)
  /\ Aggregated =>
       /\ Len(results) = TotalLen(result, thread_num)
       /\ \A i \in 1..Len(results) :
            Occurrences(results[i], results) = ReturnedOccurrences(results[i], thread_num)
       /\ \A w \in 1..thread_num : \A i \in 1..Len(result[w]) :
            Occurrences(result[w][i], results) = ReturnedOccurrences(result[w][i], thread_num)
       /\ Len(results) = Cardinality(HashedTasks)

\* Two workers each returned one record, the two records are identical (same
\* path string, hash and size), and the final list holds both.
C12_Witness ==
  /\ Aggregated /\ thread_num = 2
  /\ \A w \in Spawned : Len(result[w]) = 1
  /\ result[1] = result[2]
  /\ Len(results) = 2 /\ results[1] = results[2]
  /\ walk[2].path # walk[3].path

\* A spawned worker that has not ended: it is claiming or hashing.
Running(w) == w \in Spawned /\ pc[w] \in {"lock", "next", "hash"}

\* C13: the main thread aggregates only after all workers have terminated:
\* whenever main is at the final sort, at the writing of the output or past it
\* in the directory branch, all thread_num workers have been spawned and each
\* has returned, so none is claiming or hashing; and the steps that sort and
\* write are taken only in such states.
C13_AggregateAfterAllTerminated ==
  (RootIsDir /\ mpc \in {"sort", "write", "done"}) =>
    /\ spawned = thread_num /\ joined = thread_num
    /\ \A w \in 1..thread_num : pc[w] = "done"
    /\ \A w \in Workers : ~Running(w)
    /\ mutex = {}

\* Two workers, both with records, have returned and main is about to sort.
C13_Witness ==
  /\ RootIsDir /\ thread_num = 2 /\ mpc = "sort"
  /\ \A w \in Spawned : result[w] # <<>>

\* Open and read succeed on every file of the traversal (metadata may fail).
ReadsComplete == \A k \in 1..Len(walk) : walk[k].fault \notin {"open", "read"}

\* Some worker has been told by next() that the traversal is exhausted.
SomeSawExhausted == \E w \in Workers : pc[w] = "done"

\* C14: with files whose reads all complete, once the workers are about to be
\* spawned the run eventually has every worker returned (each after seeing the
\* cursor exhausted) and main past the aggregation; and once next() has told
\* one worker that the traversal is exhausted, the cursor is past the last
\* entry in every later state and no step claims an entry any more.
C14_WorkersTerminate ==
  /\ [](SomeSawExhausted => cursor > Len(walk))
  /\ [][SomeSawExhausted => (cursor' = cursor /\ handed' = handed /\
                               \A w \in Workers : pc'[w] # "hash" \/ pc[w] = "hash")]_vars
  /\ (RootIsDir /\ ReadsComplete /\ mpc = "spawn")
       ~> (Aggregated /\ \A w \in 1..thread_num : pc[w] = "done")

\* Two workers have both returned after each claimed at least one file, and
\* main is done.
C14_Witness ==
  /\ RootIsDir /\ ReadsComplete /\ thread_num = 2 /\ mpc = "done"
  /\ \A w \in Spawned : pc[w] = "done" /\ result[w] # <<>>
  /\ Len(walk) = 3

\* The halving sequence from the default down to the minimum.
HalvingSequence ==
  {DEFAULT_BUFFERIZE, DEFAULT_BUFFERIZE \div 2, DEFAULT_BUFFERIZE \div 4,
   DEFAULT_BUFFERIZE \div 8, MINIMAL_BUFFERIZE}

\* C15: get_buffer_size halves only as far as necessary: whenever it returns,
\* the value is a member of the halving sequence 256, 128, 64, 32, 16 MiB, it
\* is at most available memory divided by the thread count, and no larger
\* member of the sequence is (so it is 256 MiB whenever the quotient is at
\* least 256 MiB).
C15_LargestFittingHalving ==
  BufReturned =>
    /\ buffersize \in HalvingSequence
    /\ buffersize <= availMem \div BufThreads
    /\ \A b \in HalvingSequence : b <= availMem \div BufThreads => b <= buffersize

\* No worker exists, nothing was claimed, hashed, recorded, printed or reported.
NoWorkDone ==
  /\ spawned = 0 /\ joined = 0
  /\ \A w \in Workers :
       pc[w] = "idle" /\ package_file[w] = 0 /\ result[w] = <<>> /\ buffer[w] = <<>>
  /\ cursor = 1 /\ mutex = {}
  /\ \A k \in 1..Len(walk) : handed[k] = 0
  /\ results = <<>> /\ stdout = <<>> /\ outfile = <<>> /\ stderr = <<>>

\* C16: insufficient memory is detected before any work starts: when
\* get_buffer_size has failed, and at every point up to its return, no worker
\* has been spawned, no entry claimed, no file hashed and no record emitted or
\* error reported, whether the root is a directory or a single file.
C16_NoWorkBeforeMemoryCheck ==
  mpc \in {"start", "getbuf", "panic_mem"} => NoWorkDone

\* get_buffer_size has failed for two threads on a directory with two files.
C16_Witness ==
  /\ mpc = "panic_mem" /\ RootIsDir /\ thread_num = 2 /\ Len(walk) = 3
  /\ get_buffer_size(thread_num, availMem).panicked

\* The worker has hashed a file and the call is on record.
TracedCall == probe.phase = "trace" /\ probe.file # 0
TracedContent == walk[probe.file].content

\* C17: mode selection follows the file size: the streaming routine is used
\* exactly when size > buffer length, the single-read routine when size <=
\* buffer length, the boundary size = buffer length included, and then the
\* buffer handed to the one read call has room for the whole file.
C17_ModeFollowsSize ==
  TracedCall =>
    /\ probe.mode \in {"big", "small"}
    /\ probe.mode = "big" <=> Len(TracedContent) > Len(probe.before)
    /\ probe.mode = "small" <=> Len(TracedContent) <= Len(probe.before)
    /\ Len(TracedContent) = Len(probe.before) => probe.mode = "small"
    /\ probe.mode = "small" => Len(probe.before) >= Len(TracedContent)
    /\ Len(buffer[1]) = Len(probe.before)

\* A file exactly as long as the buffer was hashed with the single-read
\* routine, as the second file of the worker.
C17_Witness ==
  /\ TracedCall /\ probe.file = 3
  /\ Len(TracedContent) = Len(probe.before)
  /\ probe.before # NewBuffer(buffersize)
  /\ probe.mode = "small"

\* Entries for which get_xxhash3_128_and_size returns Ok(None) or Err.
IsDirectory(e) == e.kind = "dir" /\ e.fault # "meta"
MetadataFails(e) == e.fault = "meta"

\* Worker w ends, in this step, its work on the entry it had claimed.
Finishes(w) == pc[w] = "hash" /\ pc'[w] # "hash"

\* C18: a claimed entry that is a directory, or whose metadata cannot be
\* retrieved, produces no record and does not stop the worker: the step that
\* ends its processing leaves the worker's records and the standard output
\* as they are and takes the worker back to the lock to claim the next entry;
\* for a directory nothing is reported, for failed metadata the path is; and
\* no record ever carries the path of such an entry.
C18_SkippedEntries ==
  /\ [](\A w \in Workers : \A i \in 1..Len(result[w]) :
          \A k \in 1..Len(walk) :
            (IsDirectory(walk[k]) \/ MetadataFails(walk[k])) =>
              result[w][i][1] # PathString(walk[k].path))
  /\ [][\A w \in Workers :
          (Finishes(w) /\ ( IsDirectory(walk[package_file[w]])
                            \/ MetadataFails(walk[package_file[w]]) )) =>
            /\ result'[w] = result[w]
            /\ stdout' = stdout
            /\ pc'[w] = "lock"
            /\ IsDirectory(walk[package_file[w]]) => stderr' = stderr
            /\ MetadataFails(walk[package_file[w]]) =>
                 stderr' = Append(stderr, walk[package_file[w]].path)]_vars

\* One worker skipped the root directory and a file whose metadata failed,
\* then hashed the next file and returned.
C18_Witness ==
  /\ RootIsDir /\ thread_num = 1 /\ Len(walk) = 3
  /\ MetadataFails(walk[2]) /\ Readable(walk[3])
  /\ pc[1] = "done" /\ Len(result[1]) = 1 /\ Len(stderr) = 1

\* The buffer still holds bytes of a file hashed earlier.
HoldsEarlierBytes(buf) == \E k \in 1..Len(buf) : buf[k] # FILL

\* C19: a zero-byte regular file yields a record whose size is 0 and whose
\* hash is the hash of the empty byte sequence, whatever the buffer length
\* and whatever the buffer held before: every record with the path of an
\* empty file is (path, hash of nothing, 0), and the call traced on an empty
\* file has just appended that record.
C19_EmptyFileRecord ==
  /\ \A i \in 1..Len(result[1]) : \A k \in 1..Len(walk) :
       (Readable(walk[k]) /\ walk[k].content = <<>>
          /\ result[1][i][1] = PathString(walk[k].path)) =>
         result[1][i] = <<PathString(walk[k].path), xxh3_128(<<>>), 0>>
  /\ (TracedCall /\ TracedContent = <<>>) =>
       /\ result[1] # <<>>
       /\ result[1][Len(result[1])] =
            <<PathString(walk[probe.file].path), xxh3_128(<<>>), 0>>

\* An empty file was hashed with a buffer that still held bytes of the file
\* hashed before it.
C19_Witness ==
  /\ TracedCall /\ TracedContent = <<>> /\ probe.file = 3
  /\ HoldsEarlierBytes(probe.before)
  /\ Len(result[1]) = 2

\* The bytes the read calls of the traced call returned: all of them for the
\* streaming routine, those of its one read call for the single-read routine.
ReturnedBytes(content, reads, mode) ==
  IF mode = "big" THEN SubSeq(content, 1, SumSeq(reads))
  ELSE SubSeq(content, 1, IF reads = <<>> THEN 0 ELSE Head(reads))

\* C20: reusing the buffer never leaks data between files: the hash recorded
\* by a call is the hash of the bytes its read calls returned, a value that
\* mentions neither the 0xFF fill nor what the buffer held from earlier
\* files, so it is the same wherever in the worker's sequence the file comes.
C20_NoLeakBetweenFiles ==
  TracedCall =>
    /\ result[1] # <<>>
    /\ result[1][Len(result[1])][1] = PathString(walk[probe.file].path)
    /\ result[1][Len(result[1])][2] =
         xxh3_128(ReturnedBytes(TracedContent, probe.reads, probe.mode))

\* The second file of the worker is shorter than the first and was hashed
\* with a buffer that still held bytes of the first beyond its own length.
C20_Witness ==
  /\ TracedCall /\ probe.file = 3 /\ Len(result[1]) = 2
  /\ Len(walk[3].content) < Len(walk[2].content)
  /\ \E k \in 1..Len(probe.before) :
       k > Len(walk[3].content) /\ probe.before[k] # FILL

====
